---- MODULE Spec2Model ----
(***************************************************************************)
(* Model of the favourites controller of the backend                       *)
(* (backend/controllers/favouriteController.js) and of the AuthBloc of the *)
(* frontend.  Every HTTP request is a handler that runs up to its next     *)
(* `await`; a step of a handler is one database call together with the     *)
(* synchronous code that follows it.  Steps of different requests          *)
(* interleave freely.                                                      *)
(***************************************************************************)
EXTENDS Integers, Sequences, FiniteSets, TLC

\* Number of requests the service receives in one behaviour.
MaxReqs == 3
\* Number of events added to the AuthBloc in one behaviour.
MaxEvents == 3

Reqs == 1..MaxReqs
Evs == 1..MaxEvents

\* Authenticated users (req.user.id).
Users == {1, 2}
\* Rows of the pokemons table: the catalog is read-only for this controller.
Catalog == {1, 2}
\* pokemon_id values a request can carry: catalog ids and one unknown id.
PokemonIds == Catalog \cup {3}
Pairs == Users \X PokemonIds

VARIABLES favourites, req, hist, authState, ev, repoCalls

vars == <<favourites, req, hist, authState, ev, repoCalls>>
backendVars == <<favourites, req, hist>>
authVars == <<authState, ev, repoCalls>>

----------------------------------------------------------------------------
(* Database calls of the controller *)

\* Pokemon.findByPk(pokemon_id): is there such a catalog entry
PokemonFindByPkAlways(p) == TRUE
PokemonFindByPk(p) == p \in Catalog

\* Favourite.findOne({where: {user_id, pokemon_id}}): is a row found
FavouriteFindOneNever(t, u, p) == FALSE
FavouriteFindOneAlways(t, u, p) == TRUE
FavouriteFindOne(t, u, p) == t[<<u, p>>] > 0

\* The composite uniqueness constraint of favourites(user_id, pokemon_id):
\* does the store accept a new row for the pair
UniqueConstraintOff(t, u, p) == TRUE
UniqueConstraint(t, u, p) == t[<<u, p>>] = 0

\* Favourite.create({user_id, pokemon_id}): the table with one more row
FavouriteCreate(t, u, p) == [t EXCEPT ![<<u, p>>] = @ + 1]

\* favourite.destroy(): DELETE of the rows of the instance's key
FavouriteDestroyUser(t, u, p) == [k \in Pairs |-> IF k[1] = u THEN 0 ELSE t[k]]
FavouriteDestroy(t, u, p) == [t EXCEPT ![<<u, p>>] = 0]

\* User.findByPk(id, {include: pokemons through favourites}): for each
\* catalog entry, how many times it is listed under user.pokemons
UserPokemonsAllUsers(t, u) ==
    [p \in Catalog |-> IF \E w \in Users : t[<<w, p>>] > 0 THEN 1 ELSE 0]
UserPokemons(t, u) == [p \in Catalog |-> t[<<u, p>>]]

\* !user.pokemons || !user.pokemons.length
NoPokemonsNever(l) == FALSE
NoPokemons(l) == \A p \in Catalog : l[p] = 0

EmptyList == [p \in Catalog |-> 0]

----------------------------------------------------------------------------
(* Requests *)

NoReq ==
    [kind |-> "none", user |-> 0, pokemon |-> 0, pc |-> "idle",
     status |-> 0, msg |-> "", list |-> EmptyList, seen |-> "never",
     affected |-> 0]

\* The response of a request: res.status(s).json(..) or next(new AppError(.., s))
Respond(q, s, m) == [q EXCEPT !.pc = "done", !.status = s, !.msg = m]

\* Request slots are taken in order.
Fresh(r) ==
    /\ req[r].pc = "idle"
    /\ r > 1 => req[r - 1].kind # "none"

Arrive(r, k, u, p) ==
    [NoReq EXCEPT !.kind = k, !.user = u, !.pokemon = p, !.seen = hist[<<u, p>>]]

\* createFavourite up to and including `await Pokemon.findByPk`
CreateFindByPk(r, u, p) ==
    /\ Fresh(r)
    /\ req' = [req EXCEPT ![r] =
                 IF PokemonFindByPk(p)
                 THEN [Arrive(r, "create", u, p) EXCEPT !.pc = "findOne"]
                 ELSE Respond(Arrive(r, "create", u, p), 404, "no such pokemon")]
    /\ UNCHANGED <<favourites, hist, authVars>>

\* createFavourite: `await Favourite.findOne` and the check that follows
CreateFindOne(r) ==
    /\ req[r].kind = "create"
    /\ req[r].pc = "findOne"
    /\ req' = [req EXCEPT ![r] =
                 IF FavouriteFindOne(favourites, req[r].user, req[r].pokemon)
                 THEN Respond(req[r], 400, "already liked")
                 ELSE [req[r] EXCEPT !.pc = "create"]]
    /\ UNCHANGED <<favourites, hist, authVars>>

\* createFavourite: `await Favourite.create` and the response
CreateInsert(r) ==
    /\ req[r].kind = "create"
    /\ req[r].pc = "create"
    /\ LET u == req[r].user
           p == req[r].pokemon
       IN IF UniqueConstraint(favourites, u, p)
          THEN /\ favourites' = FavouriteCreate(favourites, u, p)
               /\ req' = [req EXCEPT ![r] = Respond(req[r], 201, "Success")]
               /\ hist' = [hist EXCEPT ![<<u, p>>] = "added"]
          ELSE /\ req' = [req EXCEPT ![r] = Respond(req[r], 400, "unique violation")]
               /\ UNCHANGED <<favourites, hist>>
    /\ UNCHANGED authVars

\* readFavourite: `await User.findByPk` with the join, and the response
ReadFavourite(r, u) ==
    /\ Fresh(r)
    /\ LET l == UserPokemons(favourites, u)
           q == [NoReq EXCEPT !.kind = "read", !.user = u]
       IN req' = [req EXCEPT ![r] =
                    IF NoPokemons(l)
                    THEN Respond(q, 404, "no favourites")
                    ELSE Respond([q EXCEPT !.list = l], 200, "Success")]
    /\ UNCHANGED <<favourites, hist, authVars>>

\* deleteFavourite up to and including `await Favourite.findOne` and its check
DeleteFindOne(r, u, p) ==
    /\ Fresh(r)
    /\ req' = [req EXCEPT ![r] =
                 IF FavouriteFindOne(favourites, u, p)
                 THEN [Arrive(r, "delete", u, p) EXCEPT !.pc = "destroy"]
                 ELSE Respond(Arrive(r, "delete", u, p), 404, "doesn't like")]
    /\ UNCHANGED <<favourites, hist, authVars>>

\* deleteFavourite: `await favourite.destroy()` and the response
DeleteDestroy(r) ==
    /\ req[r].kind = "delete"
    /\ req[r].pc = "destroy"
    /\ LET u == req[r].user
           p == req[r].pokemon
       IN /\ favourites' = FavouriteDestroy(favourites, u, p)
          /\ req' = [req EXCEPT ![r] =
                       Respond([req[r] EXCEPT !.affected = favourites[<<u, p>>]],
                               204, "Success")]
          /\ hist' = [hist EXCEPT ![<<u, p>>] = "removed"]
    /\ UNCHANGED authVars

----------------------------------------------------------------------------
(* AuthBloc *)

\* Values of event.email and event.password
Texts == {"", "ash"}
\* What the repository call ends with: a user returned, or an error thrown
ReturnedUsers == {"ash", "misty"}
Errors == {"Exception: failed"}

NoEvent ==
    [kind |-> "none", email |-> "", password |-> "", pc |-> "idle",
     emitted |-> <<>>, calls |-> 0, ok |-> FALSE, result |-> ""]

\* AuthState(): the state the bloc is constructed with
InitialAuthState == [status |-> "initial", user |-> "", error |-> ""]

\* event.email.isEmpty || event.password.isEmpty
IsBlankBoth(email, password) == email = "" /\ password = ""
IsBlank(email, password) == email = "" \/ password = ""

FreshEvent(e) ==
    /\ ev[e].pc = "idle"
    /\ e > 1 => ev[e - 1].kind # "none"

\* The handler up to its await: the guard, emit(loading), the repository call
Handle(e, k, email, password) ==
    /\ FreshEvent(e)
    /\ LET a == [NoEvent EXCEPT !.kind = k, !.email = email, !.password = password]
       IN IF IsBlank(email, password)
          THEN /\ ev' = [ev EXCEPT ![e] = [a EXCEPT !.pc = "done"]]
               /\ UNCHANGED <<authState, repoCalls>>
          ELSE /\ authState' = [authState EXCEPT !.status = "loading"]
               /\ ev' = [ev EXCEPT ![e] =
                           [a EXCEPT !.pc = "awaiting", !.calls = 1,
                                     !.emitted = <<authState'>>]]
               /\ repoCalls' = [repoCalls EXCEPT ![k] = @ + 1]
    /\ UNCHANGED backendVars

\* AuthBloc._login up to `await _authRepository.login`
Login(e, email, password) == Handle(e, "login", email, password)

\* AuthBloc._register up to `await _authRepository.register`
Register(e, email, password) == Handle(e, "register", email, password)

\* The repository call returns: emit(success, user)
RepositoryReturns(e, user) ==
    /\ ev[e].pc = "awaiting"
    /\ authState' = [authState EXCEPT !.status = "success", !.user = user]
    /\ ev' = [ev EXCEPT ![e] =
                [@ EXCEPT !.pc = "done", !.ok = TRUE, !.result = user,
                          !.emitted = Append(@, authState')]]
    /\ UNCHANGED <<repoCalls, backendVars>>

\* The repository call throws: emit(failure, e.toString())
RepositoryThrows(e, error) ==
    /\ ev[e].pc = "awaiting"
    /\ authState' = [authState EXCEPT !.status = "failure", !.error = error]
    /\ ev' = [ev EXCEPT ![e] =
                [@ EXCEPT !.pc = "done", !.ok = FALSE, !.result = error,
                          !.emitted = Append(@, authState')]]
    /\ UNCHANGED <<repoCalls, backendVars>>

----------------------------------------------------------------------------
(* Specifications *)

\* Pairs whose row may already be stored when the service starts serving.
SeedPairs == {<<1, 2>>, <<2, 1>>}

\* The tables the service may start from: none, some or all of the seed
\* rows, each stored once (the uniqueness constraint) and of a catalog entry.
StoredTables ==
    {t \in [Pairs -> {0, 1}] : \A k \in Pairs : t[k] = 1 => k \in SeedPairs}

Init ==
    /\ favourites \in StoredTables
    /\ req = [r \in Reqs |-> NoReq]
    /\ hist = [k \in Pairs |-> IF favourites[k] = 1 THEN "added" ELSE "never"]
    /\ authState = InitialAuthState
    /\ ev = [e \in Evs |-> NoEvent]
    /\ repoCalls = [k \in {"login", "register"} |-> 0]

Next ==
    \/ \E r \in Reqs, u \in Users, p \in PokemonIds : CreateFindByPk(r, u, p)
    \/ \E r \in Reqs : CreateFindOne(r)
    \/ \E r \in Reqs : CreateInsert(r)
    \/ \E r \in Reqs, u \in Users : ReadFavourite(r, u)
    \/ \E r \in Reqs, u \in Users, p \in PokemonIds : DeleteFindOne(r, u, p)
    \/ \E r \in Reqs : DeleteDestroy(r)

Spec == Init /\ [][Next]_vars

NextAuth ==
    \/ \E e \in Evs, m \in Texts, w \in Texts : Login(e, m, w)
    \/ \E e \in Evs, m \in Texts, w \in Texts : Register(e, m, w)
    \/ \E e \in Evs, u \in ReturnedUsers : RepositoryReturns(e, u)
    \/ \E e \in Evs, x \in Errors : RepositoryThrows(e, x)

SpecAuth == Init /\ [][NextAuth]_vars

----------------------------------------------------------------------------
(* Properties of the favourites service, checked under Spec *)

\* A create or delete request for the pair <<u, p>>
IsFor(r, k, u, p) == req[r].kind = k /\ req[r].user = u /\ req[r].pokemon = p
SamePair(a, b) == req[a].user = req[b].user /\ req[a].pokemon = req[b].pokemon
Done(r) == req[r].pc = "done"
PairOf(r) == <<req[r].user, req[r].pokemon>>

\* Request r takes the step that starts it, as a request of kind k
Starts(r, k) == req[r].pc = "idle" /\ req'[r].kind = k
\* Request r takes its step at position pc of a handler of kind k
StepsAt(r, k, pc) == req[r].kind = k /\ req[r].pc = pc /\ req'[r] # req[r]

\* C1: in every reachable state the Favourite table holds at most one row
\* for each (user_id, pokemon_id) pair.
C1_AtMostOneRowPerPair == \A k \in Pairs : favourites[k] <= 1

\* C1 witness: a pair has its row and two create requests for it have completed.
C1_Witness ==
    \E a, b \in Reqs :
        /\ a # b /\ req[a].kind = "create" /\ req[b].kind = "create"
        /\ SamePair(a, b) /\ Done(a) /\ Done(b)
        /\ favourites[PairOf(a)] = 1

\* Both requests passed their findOne without finding a row, so each reached
\* Favourite.create: they ran concurrently from a state with no row.
Raced(a, b) ==
    /\ a # b /\ req[a].kind = "create" /\ req[b].kind = "create"
    /\ SamePair(a, b) /\ Done(a) /\ Done(b)
    /\ req[a].msg \in {"Success", "unique violation"}
    /\ req[b].msg \in {"Success", "unique violation"}

NoRemoveOf(k) ==
    \A d \in Reqs : ~(req[d].kind = "delete" /\ PairOf(d) = k /\ req[d].pc # "idle")

\* C2: create requests for the same pair of an existing pokemon that race
\* from a state with no row (no delete of the pair involved) leave exactly
\* one row; each of them answers 201 or 400 and at least one answers 400.
C2_ConcurrentAddOneRowOneConflict ==
    \A a, b \in Reqs :
        (Raced(a, b) /\ NoRemoveOf(PairOf(a))) =>
            /\ favourites[PairOf(a)] = 1
            /\ req[a].status \in {201, 400}
            /\ req[b].status \in {201, 400}
            /\ req[a].status = 400 \/ req[b].status = 400

\* C2 witness: two create requests raced; one stored the row, the other was
\* refused by the store.
C2_Witness ==
    \E a, b \in Reqs :
        /\ Raced(a, b) /\ NoRemoveOf(PairOf(a))
        /\ req[a].status = 201
        /\ req[b].status = 400 /\ req[b].msg = "unique violation"

\* C3: a createFavourite that looks for the row after an earlier create of
\* the same pair answered 201, with no remove since, answers 400 and inserts
\* nothing: the pair keeps exactly one row.
C3_SecondAddConflict ==
    [][\A r \in Reqs :
          (StepsAt(r, "create", "findOne") /\ hist[PairOf(r)] = "added") =>
              /\ req'[r].pc = "done"
              /\ req'[r].status = 400
              /\ favourites' = favourites
              /\ favourites'[PairOf(r)] = 1]_vars

\* C3 witness: a create request that arrived after the pair had been added
\* has completed with 400.
C3_Witness ==
    \E a, b \in Reqs :
        /\ a # b /\ req[a].kind = "create" /\ req[b].kind = "create"
        /\ SamePair(a, b) /\ Done(a) /\ Done(b)
        /\ req[a].status = 201
        /\ req[b].seen = "added" /\ req[b].status = 400
        /\ req[b].msg = "already liked"

\* C4: a createFavourite whose pokemon_id is not in the catalog answers 404
\* at once and leaves the table as it was; no row ever references such an id.
C4_AddUnknownPokemonNotFound ==
    /\ [](\A k \in Pairs : k[2] \notin Catalog => favourites[k] = 0)
    /\ [][\A r \in Reqs :
             (Starts(r, "create") /\ req'[r].pokemon \notin Catalog) =>
                 /\ req'[r].pc = "done"
                 /\ req'[r].status = 404
                 /\ favourites' = favourites]_vars

\* C4 witness: a create for an unknown pokemon was answered 404 while the
\* table held a row.
C4_Witness ==
    \E r \in Reqs :
        /\ req[r].kind = "create" /\ req[r].pokemon \notin Catalog
        /\ Done(r) /\ req[r].status = 404
        /\ \E k \in Pairs : favourites[k] > 0

\* C5: a deleteFavourite for a pair that was never added, or whose last
\* successful operation was a remove, answers 404 and changes no row.
C5_RemoveAbsentNotFound ==
    [][\A r \in Reqs :
          (Starts(r, "delete") /\ hist[<<req'[r].user, req'[r].pokemon>>] # "added") =>
              /\ req'[r].pc = "done"
              /\ req'[r].status = 404
              /\ favourites' = favourites]_vars

\* C5 witness: a delete of a never added pair was answered 404 while the
\* table held a row.
C5_Witness ==
    \E r \in Reqs :
        /\ req[r].kind = "delete" /\ req[r].seen = "never"
        /\ Done(r) /\ req[r].status = 404
        /\ \E k \in Pairs : favourites[k] > 0

\* C6: a readFavourite by user u answers 200 with p listed exactly once when
\* u's last successful operation on p is an add, and lists no entry that u
\* has not added (entries added only by other users are absent).
C6_ListAfterAdd ==
    [][\A r \in Reqs :
          Starts(r, "read") =>
              \A p \in Catalog :
                  /\ hist[<<req'[r].user, p>>] = "added" =>
                         (req'[r].status = 200 /\ req'[r].list[p] = 1)
                  /\ req'[r].list[p] > 0 => hist[<<req'[r].user, p>>] = "added"]_vars

\* C6 witness: a read answered 200 listing one entry while another user had
\* added the other entry.
C6_Witness ==
    \E r \in Reqs, p, q \in Catalog :
        /\ req[r].kind = "read" /\ Done(r) /\ req[r].status = 200
        /\ req[r].list[p] = 1 /\ req[r].list[q] = 0
        /\ \E w \in Users : w # req[r].user /\ hist[<<w, q>>] = "added"

\* C7: after add then remove of (u, p), a readFavourite by u does not list
\* p; readFavourite answers 404 exactly when u has no favourite.
C7_ListAfterRemove ==
    [][\A r \in Reqs :
          Starts(r, "read") =>
              /\ \A p \in Catalog :
                     hist[<<req'[r].user, p>>] = "removed" => req'[r].list[p] = 0
              /\ req'[r].status = 404 <=>
                     (\A p \in Catalog : hist[<<req'[r].user, p>>] # "added")
              /\ req'[r].status \in {200, 404}]_vars

\* C7 witness: the user's only favourite was added and removed, and the
\* read that followed was answered 404.
C7_Witness ==
    \E a, d, r \in Reqs :
        /\ req[a].kind = "create" /\ req[a].status = 201
        /\ req[d].kind = "delete" /\ req[d].status = 204 /\ SamePair(a, d)
        /\ req[r].kind = "read" /\ req[r].user = req[a].user
        /\ req[r].status = 404
        /\ hist[PairOf(a)] = "removed"
        /\ r > a /\ r > d

\* C8: a deleteFavourite that finds the row of (u, p) goes on to destroy it
\* and answers 204; the destroy leaves no row for (u, p) and changes no
\* other row; a delete that follows a remove with no add since answers 404.
C8_RemoveFrame ==
    [][\A r \in Reqs :
          /\ (Starts(r, "delete") /\ hist[<<req'[r].user, req'[r].pokemon>>] = "added")
                 => req'[r].pc = "destroy"
          /\ StepsAt(r, "delete", "destroy") =>
                 /\ req'[r].pc = "done" /\ req'[r].status = 204
                 /\ favourites'[PairOf(r)] = 0
                 /\ \A k \in Pairs : k # PairOf(r) => favourites'[k] = favourites[k]
          /\ (Starts(r, "delete") /\ hist[<<req'[r].user, req'[r].pokemon>>] = "removed")
                 => (req'[r].pc = "done" /\ req'[r].status = 404)]_vars

\* C8 witness: a delete answered 204, other rows are still stored, and a
\* repeated delete of the pair was answered 404.
C8_Witness ==
    \E d, e \in Reqs :
        /\ d # e /\ req[d].kind = "delete" /\ req[e].kind = "delete"
        /\ SamePair(d, e)
        /\ req[d].status = 204 /\ req[d].affected = 1
        /\ req[e].seen = "removed" /\ req[e].status = 404
        /\ \E k \in Pairs : favourites[k] = 1

\* C9: a deleteFavourite answers 204 only when it is the request that
\* removed the row, so of concurrent deletes of one row exactly one answers
\* 204.
C9_SuccessOnlyForTheRemover ==
    /\ \A r \in Reqs :
           (req[r].kind = "delete" /\ Done(r) /\ req[r].status = 204) =>
               req[r].affected = 1
    /\ \A d, e \in Reqs :
           (/\ d # e /\ req[d].kind = "delete" /\ req[e].kind = "delete"
            /\ SamePair(d, e) /\ Done(d) /\ Done(e)
            /\ Cardinality({c \in Reqs : req[c].kind = "create"
                                          /\ PairOf(c) = PairOf(d)}) <= 1)
               => ~(req[d].status = 204 /\ req[e].status = 204)

----------------------------------------------------------------------------
(* Properties of the AuthBloc, checked under SpecAuth *)

Finished(e) == ev[e].pc = "done"
\* The handler of event e takes its first step
Begins(e) == ev[e].pc = "idle" /\ ev'[e].pc # "idle"
\* The handler of event e takes its last step, after the repository call
Ends(e) == ev[e].pc = "awaiting" /\ ev'[e].pc = "done"

\* C10: an event with an empty email or an empty password emits nothing,
\* leaves the state alone and calls no repository; any other event emits
\* loading and then exactly one final state, success with the returned user
\* or failure with the error text, and its handler never ends at loading.
C10_AuthHandlers ==
    /\ [](\A e \in Evs :
             Finished(e) =>
                 IF ev[e].email = "" \/ ev[e].password = ""
                 THEN ev[e].emitted = <<>> /\ ev[e].calls = 0
                 ELSE /\ Len(ev[e].emitted) = 2
                      /\ ev[e].calls = 1
                      /\ ev[e].emitted[1].status = "loading"
                      /\ IF ev[e].ok
                         THEN /\ ev[e].emitted[2].status = "success"
                              /\ ev[e].emitted[2].user = ev[e].result
                         ELSE /\ ev[e].emitted[2].status = "failure"
                              /\ ev[e].emitted[2].error = ev[e].result)
    /\ [][\A e \in Evs :
             /\ (Begins(e) /\ (ev'[e].email = "" \/ ev'[e].password = "")) =>
                    (authState' = authState /\ repoCalls' = repoCalls)
             /\ (Begins(e) /\ ev'[e].email # "" /\ ev'[e].password # "") =>
                    (authState'.status = "loading"
                       /\ repoCalls'[ev'[e].kind] = repoCalls[ev'[e].kind] + 1)
             /\ Ends(e) =>
                    (authState'.status \in {"success", "failure"}
                       /\ authState' = ev'[e].emitted[2])]_vars

\* C10 witness: one event was dropped for an empty field, one ended in
\* success and one in failure.
C10_Witness ==
    \E a, b, c \in Evs :
        /\ Finished(a) /\ Finished(b) /\ Finished(c)
        /\ ev[a].password = "" /\ ev[a].email # "" /\ ev[a].emitted = <<>>
        /\ Len(ev[b].emitted) = 2 /\ ev[b].ok
        /\ Len(ev[c].emitted) = 2 /\ ~ev[c].ok
        /\ authState.status # "loading"

====
